---- MODULE Spec2Model ----
(***************************************************************************)
(* Escalation Trend Pipeline (src/app_script.js): the fill of the empty AI *)
(* columns, the qualification filter, the grouped summaries and the three  *)
(* output tabs, as a state machine.  One run of mainTrendPipeline is the   *)
(* sequence Start, FillRow*, Commit, Qualify, WriteSummary, Insights,      *)
(* WriteDebug.                                                             *)
(*                                                                         *)
(* Cell values.  A JavaScript value that a cell or a field can hold is a   *)
(* record with the fields t, n, d, s:                                      *)
(*   t = "num"   the Number n/d (d a positive power of ten)                *)
(*   t = "nan"   the Number NaN                                            *)
(*   t = "str"   the String whose characters are the sequence s            *)
(*   t = "undef" undefined (a column the row does not have)                *)
(*   t = "null"  null                                                      *)
(* Class labels are strings of one token (the whole label).                *)
(***************************************************************************)
EXTENDS Integers, Sequences, FiniteSets, TLC

(***************************************************************************)
(* Bounds of the model                                                     *)
(***************************************************************************)
MaxRows == 2
MaxStrLen == 3
MaxNum == 12
MaxAggLen == 6

(***************************************************************************)
(* Global Config (src/app_script.js:27-59)                                 *)
(***************************************************************************)
CONF_THRESHOLD == 60
DAYS_BACK == 30
MOCK_IF_NO_API == TRUE
ISSUE_TYPES_DEMO ==
  << "Update Requests", "Missing Records", "Inventory - Tracking",
     "Image Adjustments", "Policy - Config", "Taxonomy Update",
     "Photo Update", "Item Onboarding", "General Inquiry", "Other" >>
ROOT_CAUSES_DEMO ==
  << "Data Inconsistency", "Human Error", "System Limitation",
     "Onboarding Gaps", "Incorrect Input", "Other" >>
FillModes == {"mirror", "mock", "gpt"}

(***************************************************************************)
(* JavaScript values                                                       *)
(***************************************************************************)
Num(n, d) == [t |-> "num", n |-> n, d |-> d, s |-> << >>]
Int2(n) == Num(n, 1)
NaN == [t |-> "nan", n |-> 0, d |-> 1, s |-> << >>]
Str(s) == [t |-> "str", n |-> 0, d |-> 1, s |-> s]
Label(l) == Str(<< l >>)
Empty == Str(<< >>)
Undef == [t |-> "undef", n |-> 0, d |-> 1, s |-> << >>]
Null == [t |-> "null", n |-> 0, d |-> 1, s |-> << >>]

\* ToBoolean: undefined, null, NaN, 0 and "" are falsy.
Truthy(v) ==
  CASE v.t = "num" -> v.n # 0
    [] v.t = "str" -> v.s # << >>
    [] OTHER -> FALSE

\* a || b
OrElse(a, b) == IF Truthy(a) THEN a ELSE b

\* Numbers compare as rationals.
NumLess(a, b) == a.n * b.d < b.n * a.d
NumLeq(a, b) == a.n * b.d <= b.n * a.d

Pow10(k) == IF k = 0 THEN 1 ELSE IF k = 1 THEN 10 ELSE IF k = 2 THEN 100
            ELSE IF k = 3 THEN 1000 ELSE IF k = 4 THEN 10000 ELSE 100000

Digits == {"0", "1", "2", "3", "4", "5", "6", "7", "8", "9"}
DigitVal(c) ==
  CASE c = "0" -> 0 [] c = "1" -> 1 [] c = "2" -> 2 [] c = "3" -> 3
    [] c = "4" -> 4 [] c = "5" -> 5 [] c = "6" -> 6 [] c = "7" -> 7
    [] c = "8" -> 8 [] c = "9" -> 9

(***************************************************************************)
(* safeParseConfidence (src/app_script.js:325-340)                         *)
(***************************************************************************)
\* String(raw).trim().replace(/[^0-9.]/g, ""): keep the digits and the dots.
RECURSIVE Cleaned(_)
Cleaned(s) ==
  IF s = << >> THEN << >>
  ELSE IF Head(s) \in Digits \cup {"."} THEN << Head(s) >> \o Cleaned(Tail(s))
  ELSE Cleaned(Tail(s))

\* The longest prefix of s made of digits.
RECURSIVE DigitRun(_)
DigitRun(s) ==
  IF s = << >> \/ Head(s) \notin Digits THEN << >>
  ELSE << Head(s) >> \o DigitRun(Tail(s))

RECURSIVE DigitsValue(_)
DigitsValue(s) ==
  IF s = << >> THEN 0
  ELSE DigitsValue(SubSeq(s, 1, Len(s) - 1)) * 10 + DigitVal(s[Len(s)])

\* parseFloat on a string of digits and dots: the longest prefix that is a
\* decimal literal (digits, then optionally a dot and digits); NaN when that
\* prefix holds no digit.
ParseFloat(s) ==
  LET ip == DigitRun(s)
      rest == SubSeq(s, Len(ip) + 1, Len(s))
      fp == IF rest # << >> /\ Head(rest) = "." THEN DigitRun(Tail(rest)) ELSE << >>
  IN IF ip = << >> /\ fp = << >> THEN NaN
     ELSE Num(DigitsValue(ip \o fp), Pow10(Len(fp)))

\* num <= 1 ? num * 100 : num
Scale(v) == IF NumLeq(v, Int2(1)) THEN Num(v.n * 100, v.d) ELSE v

safeParseConfidence(raw) ==
  IF raw.t \in {"null", "undef"} \/ raw = Empty THEN Null
  ELSE IF raw.t \in {"num", "nan"}
       THEN IF raw.t = "nan" THEN Null ELSE Scale(raw)
  ELSE LET cleaned == Cleaned(raw.s)
       IN IF cleaned = << >> THEN Null
          ELSE LET num == ParseFloat(cleaned)
               IN IF num.t = "nan" THEN Null ELSE Scale(num)

(***************************************************************************)
(* parseCreatedDate (src/app_script.js:300-323).  A Date is t = "date"     *)
(* with n the time in whole minutes since 1970-01-01, or t = "baddate",    *)
(* the Invalid Date (isNaN).                                               *)
(***************************************************************************)
DateAt(m) == [t |-> "date", n |-> m, d |-> 1, s |-> << >>]
InvalidDate == [t |-> "baddate", n |-> 0, d |-> 1, s |-> << >>]
MinutesPerDay == 1440
SerialEpochDays == 25569

HasDigit(s) == \E i \in 1..Len(s) : s[i] \in Digits

\* A string that is read as a date is a sequence of one-character strings.
CharAt(s, i) == IF i \in 1..Len(s) THEN s[i] ELSE "end"

\* raw.trim(), line 308: the blanks of both ends dropped.
RECURSIVE TrimLeft(_)
TrimLeft(s) == IF s # << >> /\ Head(s) = " " THEN TrimLeft(Tail(s)) ELSE s
RECURSIVE TrimRight(_)
TrimRight(s) ==
  IF s # << >> /\ s[Len(s)] = " " THEN TrimRight(SubSeq(s, 1, Len(s) - 1)) ELSE s
Trim(s) == TrimRight(TrimLeft(s))

\* The number of digits of s from position i on, most the greedy \d{1,most}
\* takes; what follows each run in the patterns is not a digit, so giving a
\* digit back never makes a match.
RECURSIVE RunAt(_, _, _)
RunAt(s, i, most) ==
  IF most = 0 \/ CharAt(s, i) \notin Digits THEN 0 ELSE 1 + RunAt(s, i + 1, most - 1)

\* parseInt(m[k], 10) of the k digits from position i.
NumAt(s, i, k) == DigitsValue(SubSeq(s, i, i + k - 1))

NoMatch == [ok |-> FALSE, mm |-> 0, dd |-> 0, yyyy |-> 0, hh |-> 0, min |-> 0,
            ss |-> 0, end |-> 0]

\* s.match(/^(\d{1,2})\/(\d{1,2})\/(\d{4})[ T](\d{1,2}):(\d{2})(?::(\d{2}))?/)
\* and the parseInt calls of lines 316-321; end is the position after the
\* match (the pattern has no $).
MatchCreated(s) ==
  LET a == RunAt(s, 1, 2)
      p1 == 1 + a
      b == RunAt(s, p1 + 1, 2)
      p2 == p1 + 1 + b
      p3 == p2 + 5
      h == RunAt(s, p3 + 1, 2)
      p4 == p3 + 1 + h
      p5 == p4 + 3
      secs == CharAt(s, p5) = ":" /\ RunAt(s, p5 + 1, 2) = 2
  IN IF /\ a >= 1 /\ CharAt(s, p1) = "/"
        /\ b >= 1 /\ CharAt(s, p2) = "/"
        /\ RunAt(s, p2 + 1, 4) = 4 /\ CharAt(s, p3) \in {" ", "T"}
        /\ h >= 1 /\ CharAt(s, p4) = ":"
        /\ RunAt(s, p4 + 1, 2) = 2
     THEN [ok |-> TRUE, mm |-> NumAt(s, 1, a), dd |-> NumAt(s, p1 + 1, b),
           yyyy |-> NumAt(s, p2 + 1, 4), hh |-> NumAt(s, p3 + 1, h),
           min |-> NumAt(s, p4 + 1, 2),
           ss |-> IF secs THEN NumAt(s, p5 + 1, 2) ELSE 0,
           end |-> IF secs THEN p5 + 3 ELSE p5]
     ELSE NoMatch

\* The day number (days since 1970-01-01) of day d of month m (1..12) of year
\* y in the Gregorian calendar; a d outside the month counts on into the
\* months before or after, as MakeDay of ECMA-262 does.
DaysFromCivil(y, m, d) ==
  LET yy == IF m <= 2 THEN y - 1 ELSE y
      era == yy \div 400
      yoe == yy - era * 400
      mp == (m + 9) % 12
      doy == ((153 * mp + 2) \div 5) + d - 1
      doe == yoe * 365 + (yoe \div 4) - (yoe \div 100) + doy
  IN era * 146097 + doe - 719468

IsLeap(y) == (y % 4 = 0 /\ y % 100 # 0) \/ y % 400 = 0
DaysInMonth(y, m) ==
  IF m = 2 THEN (IF IsLeap(y) THEN 29 ELSE 28)
  ELSE IF m \in {4, 6, 9, 11} THEN 30 ELSE 31

\* new Date(yyyy, mm - 1, dd, hh, min, ss), line 322: no component is
\* checked, each one out of its range carries into the next unit; a year of
\* 0..99 is a year of the 1900s.  The clock of the model counts whole minutes
\* and the script's time zone is taken as UTC.
DateOfParts(yyyy, month0, dd, hh, min, ss) ==
  LET yr == IF yyyy \in 0..99 THEN 1900 + yyyy ELSE yyyy
      y == yr + (month0 \div 12)
      m == (month0 % 12) + 1
  IN DateAt((DaysFromCivil(y, m, dd) * 24 + hh) * 60 + min + (ss \div 60))

NoIso == [ok |-> FALSE, y |-> 0, m |-> 0, d |-> 0, hh |-> 0, min |-> 0]

\* The ISO forms YYYY-MM-DD and YYYY-MM-DDTHH:mm of Date.parse, which takes
\* the whole string and no field out of its range.
MatchIso(s) ==
  LET y == NumAt(s, 1, 4)
      m == NumAt(s, 6, 2)
      d == NumAt(s, 9, 2)
      timed == Len(s) = 16
      hh == IF timed THEN NumAt(s, 12, 2) ELSE 0
      min == IF timed THEN NumAt(s, 15, 2) ELSE 0
  IN IF /\ Len(s) \in {10, 16}
        /\ RunAt(s, 1, 4) = 4 /\ CharAt(s, 5) = "-"
        /\ RunAt(s, 6, 2) = 2 /\ CharAt(s, 8) = "-"
        /\ RunAt(s, 9, 2) = 2
        /\ timed => (CharAt(s, 11) = "T" /\ RunAt(s, 12, 2) = 2
                       /\ CharAt(s, 14) = ":" /\ RunAt(s, 15, 2) = 2)
        /\ m \in 1..12 /\ d \in 1..DaysInMonth(y, m)
        /\ hh \in 0..23 /\ min \in 0..59
     THEN [ok |-> TRUE, y |-> y, m |-> m, d |-> d, hh |-> hh, min |-> min]
     ELSE NoIso

\* The date-only form M/D/YYYY, the whole string.
MatchDateOnly(s) ==
  LET a == RunAt(s, 1, 2)
      p1 == 1 + a
      b == RunAt(s, p1 + 1, 2)
      p2 == p1 + 1 + b
  IN IF /\ a >= 1 /\ CharAt(s, p1) = "/"
        /\ b >= 1 /\ CharAt(s, p2) = "/"
        /\ RunAt(s, p2 + 1, 4) = 4 /\ Len(s) = p2 + 4
     THEN [ok |-> TRUE, mm |-> NumAt(s, 1, a), dd |-> NumAt(s, p1 + 1, b),
           yyyy |-> NumAt(s, p2 + 1, 4), hh |-> 0, min |-> 0, ss |-> 0,
           end |-> p2 + 5]
     ELSE NoMatch

\* new Date(s), line 310, as the V8 engine of the Apps Script runtime reads
\* the strings of the model: the ISO forms; else its own reading of
\* M/D/YYYY and M/D/YYYY H:MM[:SS], the whole string, in local time, which
\* takes a month of 1..12, a day of 1..31 (a day past the month's end counts
\* on), an hour of 0..23, a minute and a second of 0..59; else the Invalid
\* Date.
NewDate(s) ==
  LET iso == MatchIso(s)
      timed == MatchCreated(s)
      m == IF timed.ok /\ timed.end = Len(s) + 1 /\ "T" \notin {s[i] : i \in 1..Len(s)}
           THEN timed ELSE MatchDateOnly(s)
  IN IF iso.ok THEN DateOfParts(iso.y, iso.m - 1, iso.d, iso.hh, iso.min, 0)
     ELSE IF /\ m.ok /\ m.mm \in 1..12 /\ m.dd \in 1..31
             /\ m.hh \in 0..23 /\ m.min \in 0..59 /\ m.ss \in 0..59
          THEN DateOfParts(m.yyyy, m.mm - 1, m.dd, m.hh, m.min, m.ss)
     ELSE InvalidDate

\* The strings of the created cells of the model are the forms NewDate and
\* MatchCreated read, and strings without a digit.
parseCreatedDate(raw) ==
  IF raw.t = "date" THEN raw
  ELSE IF raw.t = "num"
       THEN DateAt(((raw.n - SerialEpochDays * raw.d) * MinutesPerDay) \div raw.d)
  ELSE IF raw.t # "str" THEN InvalidDate
  ELSE LET s == Trim(raw.s)
           iso == NewDate(s)
           m == MatchCreated(s)
       IN IF iso # InvalidDate THEN iso
          ELSE IF ~m.ok THEN InvalidDate
          ELSE DateOfParts(m.yyyy, m.mm - 1, m.dd, m.hh, m.min, m.ss)

(***************************************************************************)
(* The sheet: rows are functions from column names to cell values.         *)
(***************************************************************************)
SOURCE_ISSUE_FIELD == "Issue Type (MNSD)"
SOURCE_CAUSE_FIELD == "Root Cause"
required ==
  << "AI Issue Type", "AI Issue Type Confidence",
     "AI Root Cause", "AI Root Cause Confidence" >>
AICols == {required[i] : i \in 1..Len(required)}
SrcCols == {SOURCE_ISSUE_FIELD, SOURCE_CAUSE_FIELD}
BaseCols == {"Created", "Summary"}
AllCols == BaseCols \cup SrcCols \cup AICols

\* The clock reading of the run, in minutes.
NowMin == 28800000
cutoffDate == DateAt(NowMin - DAYS_BACK * MinutesPerDay)

(***************************************************************************)
(* State                                                                   *)
(***************************************************************************)
VARIABLES
  pc,               \* position of the run in mainTrendPipeline
  mode,             \* DEMO_FILL_MODE
  apiKey,           \* TRUE iff OPENAI_API_KEY is set (truthy)
  tabExists,        \* the "Raw Import" tab exists
  headers,          \* the column names of the header row of the tab
  sheet,            \* the data rows of the tab
  pre,              \* the data rows as the current run found them
  values,           \* ensureAIFieldsPopulated: the rows in memory
  r,                \* ensureAIFieldsPopulated: the loop index (1 = first data row)
  preds,            \* per row, the answers of the classification calls of this run
  labelWrites,      \* per row, the assignments of this run to its two labels
  debugRows,        \* mainTrendPipeline: debugRows
  recentQualified,  \* mainTrendPipeline: recentQualified
  issueSummary,     \* mainTrendPipeline: issueSummary
  causeSummary,     \* mainTrendPipeline: causeSummary
  narrative,        \* the answers of the narrative calls of this run
  insightText,      \* mainTrendPipeline: insightText
  summaryTab,       \* what the run wrote to "Trend Summary (Demo)"
  insightsTab,      \* what the run wrote to "Insights (Demo)"
  debugTab,         \* what the run wrote to "Debug"
  error,            \* the error the run threw to its invoker, "" if none
  rawIn,            \* confidence parser on its own: the input
  confOut,          \* confidence parser on its own: the result
  aggIn,            \* aggregator on its own: the records
  aggOut            \* aggregator on its own: the result

pipeVars ==
  << pc, mode, apiKey, tabExists, headers, sheet, pre, values, r, preds,
     labelWrites, debugRows, recentQualified, issueSummary, causeSummary,
     narrative, insightText, summaryTab, insightsTab, debugTab, error >>
confVars == << rawIn, confOut >>
aggVars == << aggIn, aggOut >>
vars == << pipeVars, confVars, aggVars >>

(***************************************************************************)
(* The inputs of a run: the rows of the tab                                *)
(***************************************************************************)
DaysAgo(k) == NowMin - k * MinutesPerDay
SerialOfDaysAgo(k) == Int2(SerialEpochDays + (DaysAgo(k) \div MinutesPerDay))

MkRow(created, it, ic, rc, rcc, si, sc) ==
  [c \in AllCols |->
     CASE c = "Created" -> created
       [] c = "Summary" -> Empty
       [] c = "AI Issue Type" -> it
       [] c = "AI Issue Type Confidence" -> ic
       [] c = "AI Root Cause" -> rc
       [] c = "AI Root Cause Confidence" -> rcc
       [] c = SOURCE_ISSUE_FIELD -> si
       [] c = SOURCE_CAUSE_FIELD -> sc]

Recent == DateAt(DaysAgo(5))
AtCutoff == DateAt(DaysAgo(DAYS_BACK))
Old == SerialOfDaysAgo(40)
LI == Label("Other")
LC == Label("Human Error")
SI == Label("Photo Update")
SC == Label("Onboarding Gaps")

\* Rows whose two labels are set: a confidence that is empty, unparseable,
\* a fraction, a percentage below or at the threshold; each window verdict.
FullRows ==
  { MkRow(Recent, LI, Empty, LC, Empty, Empty, Empty),
    MkRow(AtCutoff, LI, Str(<< "n", "/", "a" >>), LC, Int2(75), SI, SC),
    MkRow(Recent, LI, Str(<< "7", "2", "%" >>), LC, Empty, Empty, Empty),
    MkRow(Recent, LI, Int2(40), LC, Int2(59), SI, SC),
    MkRow(Old, LI, Int2(60), LC, Num(9, 10), SI, SC),
    MkRow(Empty, LI, Int2(75), LC, Int2(90), Empty, Empty) }

\* Rows with an empty label: the confidence next to it is empty, 0 or set.
NeedyRows ==
  { MkRow(Recent, Empty, Empty, LC, Int2(75), SI, SC),
    MkRow(Recent, Empty, Int2(0), Empty, Int2(80), SI, Empty),
    MkRow(AtCutoff, LI, Int2(40), Empty, Empty, Empty, SC) }

RowInputs == FullRows \cup NeedyRows

\* The summary cell names the row, so that rows are told apart.
SummaryOf(i) == Label(IF i = 1 THEN "ticket 1" ELSE IF i = 2 THEN "ticket 2"
                      ELSE IF i = 3 THEN "ticket 3" ELSE "ticket n")

\* A row of a tab whose header is hs: getValues has no cell for other columns.
Mask(row, hs, i) ==
  [c \in AllCols |-> IF c \notin hs THEN Undef
                     ELSE IF c = "Summary" THEN SummaryOf(i) ELSE row[c]]

\* The header rows of the model: all columns; no source column (only the
\* mirror mode reads them); no AI column; no AI confidence column.
HeaderInputs(m) ==
  { AllCols, AllCols \ AICols,
    AllCols \ {"AI Issue Type Confidence", "AI Root Cause Confidence"} }
    \cup (IF m = "mirror" THEN {AllCols \ SrcCols} ELSE {})

(***************************************************************************)
(* ensureAIFieldsPopulated (src/app_script.js:150-249)                     *)
(***************************************************************************)
\* The values Math.random() takes in the model, in hundredths.
RandU == {0, 99}

\* arr[Math.floor(Math.random() * arr.length)]
randPick(arr, u) == Label(arr[((u * Len(arr)) \div 100) + 1])

\* Math.round(x) for x = n/d: the nearest integer, a half rounds up.
MathRound(n, d) == (2 * n + d) \div (2 * d)

\* Math.max(30, Math.min(99, Math.round(65 + (Math.random() - 0.5) * 20)))
Max(a, b) == IF a >= b THEN a ELSE b
Min(a, b) == IF a <= b THEN a ELSE b
randConf(u) == Int2(Max(30, Min(99, MathRound(6500 + (u - 50) * 20, 100))))

\* What predictIssueAndCauseViaGPT_ (src/app_script.js:255-285) returns: null
\* when the fetch or a JSON.parse throws, else the parsed answer, in which a
\* field the answer omits is undefined.
NoPred == [ok |-> FALSE, issueType |-> Undef, issueConfidence |-> Undef,
           rootCause |-> Undef, rootConfidence |-> Undef]
Pred(it, ic, rc, rcc) == [ok |-> TRUE, issueType |-> it, issueConfidence |-> ic,
                          rootCause |-> rc, rootConfidence |-> rcc]
predictIssueAndCauseViaGPT_ ==
  { NoPred,
    Pred(Label("Missing Records"), Num(85, 100), Label("System Limitation"), Num(1, 100)),
    Pred(Label("General Inquiry"), Null, Empty, Num(0, 1)) }

\* x == null
IsNullish(v) == v.t \in {"null", "undef"}

\* The columns the loop can index: the header row after lines 162-177.
idx == headers \cup AICols

\* Every label taken to need the fill.
needsFillAlways(label) == TRUE

needsFill(label) == label = Empty \/ label = Null

\* One field (label and confidence) of one row, as the branch of the mode
\* assigns it.  u1 and u2 are the two draws of Math.random().
FillMirror(src, conf, list, u1) ==
  [label |-> OrElse(src, randPick(list, u1)), conf |-> OrElse(conf, Int2(90))]
FillMock(list, u1, u2) ==
  [label |-> randPick(list, u1), conf |-> randConf(u2)]
\* No fallback: the label and the confidence of the answer, whatever it is.
FillGptNoFallback(pred, predLabel, predConf, list, u1, u2) ==
  [label |-> IF pred.ok /\ Truthy(predLabel) THEN predLabel ELSE Empty,
   conf |-> IF pred.ok /\ ~IsNullish(predConf)
            THEN Int2(MathRound(predConf.n * 100, predConf.d))
            ELSE Empty]

FillGpt(pred, predLabel, predConf, list, u1, u2) ==
  [label |-> IF pred.ok /\ Truthy(predLabel) THEN predLabel ELSE randPick(list, u1),
   conf |-> IF pred.ok /\ ~IsNullish(predConf)
            THEN Int2(MathRound(predConf.n * 100, predConf.d))
            ELSE randConf(u2)]

CallsGpt == mode = "gpt" /\ apiKey

\* A failed call made a second time.
PredsAfterRetry(old, pred) ==
  IF mode = "gpt" /\ apiKey
  THEN IF pred.ok THEN Append(old, pred) ELSE Append(Append(old, pred), pred)
  ELSE old

\* The tab never taken to be missing.
TabNeverMissing == FALSE

\* The answers a row has got once the loop body ran for it: the one call of
\* line 230, made in the branch of lines 227-241 only.
PredsAfter(old, pred) == IF CallsGpt THEN Append(old, pred) ELSE old

\* !sheet, line 152.
TabMissing == ~tabExists

FillField(src, conf, list, pred, predLabel, predConf, u1, u2) ==
  IF mode = "mirror" THEN FillMirror(src, conf, list, u1)
  ELSE IF mode = "mock" THEN FillMock(list, u1, u2)
  ELSE IF ~apiKey THEN FillMock(list, u1, u2)
  ELSE FillGpt(pred, predLabel, predConf, list, u1, u2)

\* The body of the loop for one row (lines 185-244).
FilledRow(row, pred, u) ==
  LET needsIssue == needsFill(row["AI Issue Type"])
      needsCause == needsFill(row["AI Root Cause"])
      srcIssue == IF SOURCE_ISSUE_FIELD \in idx THEN row[SOURCE_ISSUE_FIELD] ELSE Empty
      srcCause == IF SOURCE_CAUSE_FIELD \in idx THEN row[SOURCE_CAUSE_FIELD] ELSE Empty
      fi == FillField(srcIssue, row["AI Issue Type Confidence"], ISSUE_TYPES_DEMO,
                      pred, pred.issueType, pred.issueConfidence, u[1], u[2])
      fc == FillField(srcCause, row["AI Root Cause Confidence"], ROOT_CAUSES_DEMO,
                      pred, pred.rootCause, pred.rootConfidence, u[3], u[4])
  IN [c \in AllCols |->
        IF needsIssue /\ c = "AI Issue Type" THEN fi.label
        ELSE IF needsIssue /\ c = "AI Issue Type Confidence" THEN fi.conf
        ELSE IF needsCause /\ c = "AI Root Cause" THEN fc.label
        ELSE IF needsCause /\ c = "AI Root Cause Confidence" THEN fc.conf
        ELSE row[c]]

NoWrites == [issue |-> 0, cause |-> 0]

\* mainTrendPipeline lines 66-74 and ensureAIFieldsPopulated lines 151-159:
\* the tab is looked up, its rows are read.
Start ==
  /\ pc = "start"
  /\ pre' = sheet
  /\ IF TabMissing
     THEN /\ pc' = "aborted"
          /\ error' = "Missing tab: Raw Import"
          /\ UNCHANGED << values, r, preds, labelWrites >>
     ELSE /\ error' = error
          /\ IF Len(sheet) < 1
             THEN /\ pc' = "qualify"
                  /\ UNCHANGED << values, r, preds, labelWrites >>
             ELSE /\ pc' = "fill"
                  /\ values' = sheet
                  /\ r' = 1
                  /\ preds' = [i \in 1..Len(sheet) |-> << >>]
                  /\ labelWrites' = [i \in 1..Len(sheet) |-> NoWrites]
  /\ UNCHANGED << mode, apiKey, tabExists, headers, sheet, debugRows,
                  recentQualified, issueSummary, causeSummary, narrative,
                  insightText, summaryTab, insightsTab, debugTab >>
  /\ UNCHANGED << confVars, aggVars >>

\* One iteration of the loop of lines 184-245.
FillRow ==
  /\ pc = "fill"
  /\ r <= Len(values)
  /\ LET row == values[r]
         needsIssue == needsFill(row["AI Issue Type"])
         needsCause == needsFill(row["AI Root Cause"])
     IN IF ~needsIssue /\ ~needsCause
        THEN UNCHANGED << values, preds, labelWrites >>
        ELSE \E pred \in predictIssueAndCauseViaGPT_ : \E u \in [1..4 -> RandU] :
               /\ values' = [values EXCEPT ![r] = FilledRow(row, pred, u)]
               /\ preds' = [preds EXCEPT ![r] = PredsAfter(@, pred)]
               /\ labelWrites' =
                    [labelWrites EXCEPT
                       ![r] = [issue |-> @.issue + (IF needsIssue THEN 1 ELSE 0),
                               cause |-> @.cause + (IF needsCause THEN 1 ELSE 0)]]
  /\ r' = r + 1
  /\ pc' = IF r = Len(values) THEN "commit" ELSE "fill"
  /\ UNCHANGED << mode, apiKey, tabExists, headers, sheet, pre, debugRows,
                  recentQualified, issueSummary, causeSummary, narrative,
                  insightText, summaryTab, insightsTab, debugTab, error >>
  /\ UNCHANGED << confVars, aggVars >>

\* range.setValues(values), line 248.  The range was taken at line 154 with
\* the columns the tab had: when a required column was added to the header in
\* memory, the data no longer has the dimensions of the range and setValues
\* throws; nothing is written.
Commit ==
  /\ pc = "commit"
  /\ IF AICols \subseteq headers
     THEN /\ sheet' = values
          /\ pc' = "qualify"
          /\ error' = error
     ELSE /\ sheet' = sheet
          /\ pc' = "aborted"
          /\ error' = "setValues: the data does not match the range"
  /\ UNCHANGED << mode, apiKey, tabExists, headers, pre, values, r, preds,
                  labelWrites, debugRows, recentQualified, issueSummary,
                  causeSummary, narrative, insightText, summaryTab,
                  insightsTab, debugTab >>
  /\ UNCHANGED << confVars, aggVars >>

(***************************************************************************)
(* The qualification filter (src/app_script.js:79-117)                     *)
(***************************************************************************)
Pass == "pass"
MissingBoth == "Missing both confidences"
InvalidIssue == "Invalid issue confidence"
InvalidRoot == "Invalid root confidence"
BothBelow == "Both below threshold"
IssueBelow == "Issue confidence below threshold"
RootBelow == "Root confidence below threshold"
Reasons == {Pass, MissingBoth, InvalidIssue, InvalidRoot, BothBelow, IssueBelow, RootBelow}

\* !isNaN(created) && created >= cutoffDate
inWindow(created) == created.t = "date" /\ created.n >= cutoffDate.n

Below(conf) == NumLess(conf, Int2(CONF_THRESHOLD))

\* The below-threshold tests in another order: the issue test first.
reasonIssueFirst(issueConf, rootConf) ==
  IF issueConf = Null /\ rootConf = Null THEN MissingBoth
  ELSE IF issueConf = Null THEN InvalidIssue
  ELSE IF rootConf = Null THEN InvalidRoot
  ELSE IF Below(issueConf) THEN IssueBelow
  ELSE IF Below(rootConf) THEN RootBelow
  ELSE Pass

\* Lines 95-101.
reason(issueConf, rootConf) ==
  IF issueConf = Null /\ rootConf = Null THEN MissingBoth
  ELSE IF issueConf = Null THEN InvalidIssue
  ELSE IF rootConf = Null THEN InvalidRoot
  ELSE IF Below(issueConf) /\ Below(rootConf) THEN BothBelow
  ELSE IF Below(issueConf) THEN IssueBelow
  ELSE IF Below(rootConf) THEN RootBelow
  ELSE Pass

\* The debug row of the row at index i of data (i from 1; the code's i is
\* from 0 and it pushes i + 2).  Lines 103-114.
DebugEntry(row, i) ==
  LET created == parseCreatedDate(row["Created"])
      issueConf == safeParseConfidence(row["AI Issue Type Confidence"])
      rootConf == safeParseConfidence(row["AI Root Cause Confidence"])
  IN [rowNum |-> i + 1,
      rawCreated |-> row["Created"],
      parsedISO |-> IF created.t = "date" THEN created ELSE Label("Invalid"),
      summary |-> OrElse(row["Summary"], Empty),
      issueType |-> OrElse(row["AI Issue Type"], Empty),
      issueConf |-> issueConf,
      rootCause |-> OrElse(row["AI Root Cause"], Empty),
      rootConf |-> rootConf,
      window |-> IF inWindow(created) THEN "Recent" ELSE "Old",
      reason |-> reason(issueConf, rootConf)]

\* The value the filter callback returns, line 116.
Keeps(row) ==
  /\ inWindow(parseCreatedDate(row["Created"]))
  /\ reason(safeParseConfidence(row["AI Issue Type Confidence"]),
            safeParseConfidence(row["AI Root Cause Confidence"])) = Pass

\* data.filter(...): the rows the callback keeps, in the order of data.
RECURSIVE FilterRows(_)
FilterRows(data) ==
  IF data = << >> THEN << >>
  ELSE (IF Keeps(Head(data)) THEN << Head(data) >> ELSE << >>) \o FilterRows(Tail(data))

\* A debug row for the kept rows only.
PushedDebugRowsOfKept(data) ==
  LET kept == FilterRows(data) IN [i \in 1..Len(kept) |-> DebugEntry(kept[i], i)]

\* The debug rows the callback pushes: one for each call, in the order of data.
PushedDebugRows(data) == [i \in 1..Len(data) |-> DebugEntry(data[i], i)]

\* getSheetDataAsObjects (lines 291-298): the rows of the tab as objects
\* keyed by the header cells.
getSheetDataAsObjects == sheet

Qualify ==
  /\ pc = "qualify"
  /\ recentQualified' = FilterRows(getSheetDataAsObjects)
  /\ debugRows' = PushedDebugRows(getSheetDataAsObjects)
  /\ pc' = "summary"
  /\ UNCHANGED << mode, apiKey, tabExists, headers, sheet, pre, values, r,
                  preds, labelWrites, issueSummary, causeSummary, narrative,
                  insightText, summaryTab, insightsTab, debugTab, error >>
  /\ UNCHANGED << confVars, aggVars >>

(***************************************************************************)
(* summarizeByKey (src/app_script.js:342-356)                              *)
(***************************************************************************)
TopN == 5
Unknown == << "Unknown" >>

\* row[keyField] || "Unknown", as the property name it becomes: the
\* characters of the label.
KeyOf(v) == IF Truthy(v) THEN v.s ELSE Unknown

\* a + b for two numbers whose denominators are powers of ten.
NumAdd(a, b) ==
  LET dd == Max(a.d, b.d)
  IN Num(a.n * (dd \div a.d) + b.n * (dd \div b.d), dd)

\* safeParseConfidence(row[confidenceField]) ?? 0
ConfOrZero(v) == LET c == safeParseConfidence(v) IN IF c = Null THEN Int2(0) ELSE c

\* map after the forEach over data: its properties in the order in which
\* they were created.
RECURSIVE AddToMap(_, _, _)
AddToMap(map, key, conf) ==
  IF map = << >> THEN << [key |-> key, count |-> 1, total |-> conf] >>
  ELSE IF Head(map).key = key
       THEN << [key |-> key, count |-> Head(map).count + 1,
                total |-> NumAdd(Head(map).total, conf)] >> \o Tail(map)
  ELSE << Head(map) >> \o AddToMap(Tail(map), key, conf)

RECURSIVE BuildMap(_, _, _, _)
BuildMap(data, keyField, confidenceField, map) ==
  IF data = << >> THEN map
  ELSE BuildMap(Tail(data), keyField, confidenceField,
                AddToMap(map, KeyOf(Head(data)[keyField]),
                         ConfOrZero(Head(data)[confidenceField])))

\* A property name that is an array index: a canonical numeric string.
IsArrayIndex(key) ==
  /\ Len(key) >= 1
  /\ Len(key) <= 9
  /\ \A i \in 1..Len(key) : key[i] \in Digits
  /\ Len(key) > 1 => key[1] # "0"

\* Insert e into a sequence sorted by Before, after the entries it does not
\* come before.
RECURSIVE InsertByIndex(_, _)
InsertByIndex(sorted, e) ==
  IF sorted = << >> THEN << e >>
  ELSE IF DigitsValue(e.key) < DigitsValue(Head(sorted).key) THEN << e >> \o sorted
  ELSE << Head(sorted) >> \o InsertByIndex(Tail(sorted), e)

RECURSIVE SortByIndex(_)
SortByIndex(es) ==
  IF es = << >> THEN << >>
  ELSE InsertByIndex(SortByIndex(SubSeq(es, 1, Len(es) - 1)), es[Len(es)])

\* Object.entries(map): the array-index property names in ascending numeric
\* order, then the other names in the order of their creation.
ObjectEntries(map) ==
  SortByIndex(SelectSeq(map, LAMBDA e : IsArrayIndex(e.key)))
    \o SelectSeq(map, LAMBDA e : ~IsArrayIndex(e.key))

\* Number((total / count).toFixed(1)), in tenths.  The totals of the model
\* are integers and its counts are below 20, so that a quotient that lies
\* half way between two tenths is a binary fraction and toFixed takes the
\* larger tenth.
ToFixed1(total, count) == Num((20 * total.n + total.d * count) \div (2 * total.d * count), 10)

Stats(e) == [key |-> e.key, count |-> e.count, avg |-> ToFixed1(e.total, e.count)]

\* sort((a, b) => b.count - a.count): stable, by count descending.
RECURSIVE InsertByCount(_, _)
InsertByCount(sorted, e) ==
  IF sorted = << >> THEN << e >>
  ELSE IF e.count > Head(sorted).count THEN << e >> \o sorted
  ELSE << Head(sorted) >> \o InsertByCount(Tail(sorted), e)

RECURSIVE SortByCount(_)
SortByCount(es) ==
  IF es = << >> THEN << >>
  ELSE InsertByCount(SortByCount(SubSeq(es, 1, Len(es) - 1)), es[Len(es)])

summarizeByKey(data, keyField, confidenceField) ==
  LET entries == ObjectEntries(BuildMap(data, keyField, confidenceField, << >>))
      rows == SortByCount([i \in 1..Len(entries) |-> Stats(entries[i])])
  IN SubSeq(rows, 1, Min(TopN, Len(rows)))

(***************************************************************************)
(* The output tabs (src/app_script.js:119-144, 358-445)                    *)
(***************************************************************************)
\* What a run wrote to a tab: nothing, or one write.
NotWritten == << >>
Written(x) == << x >>

\* Lines 120-124: the two summaries, then writeSummarySheet (358-381).
WriteSummary ==
  /\ pc = "summary"
  /\ LET issues == summarizeByKey(recentQualified, "AI Issue Type", "AI Issue Type Confidence")
         causes == summarizeByKey(recentQualified, "AI Root Cause", "AI Root Cause Confidence")
     IN /\ issueSummary' = issues
        /\ causeSummary' = causes
        /\ summaryTab' = Written([noTickets |-> issues = << >> /\ causes = << >>,
                                  issueData |-> issues, causeData |-> causes])
  /\ pc' = "insights"
  /\ UNCHANGED << mode, apiKey, tabExists, headers, sheet, pre, values, r,
                  preds, labelWrites, debugRows, recentQualified, narrative,
                  insightText, insightsTab, debugTab, error >>
  /\ UNCHANGED << confVars, aggVars >>

\* What the narrative call of getGPTInsights (lines 395-409) can do: answer
\* with a text, or throw.
NarrativeOutcomes ==
  { [ok |-> TRUE, text |-> "3 bullets"],
    [ok |-> FALSE, text |-> "Exception: Request failed"] }

Text(kind, text) == [kind |-> kind, text |-> text]
NoText == Text("none", "")

\* getGPTInsights: the trimmed answer, or the error message with the detail.
getGPTInsights(answer) ==
  IF answer.ok THEN Text("answer", answer.text)
  ELSE Text("GPT insights failed: ", answer.text)

\* writeInsightsSheet (412-424): the lines under the title.
InsightLines(t) ==
  IF t.kind = "answer" /\ t.text = "" THEN Text("fixed", "GPT returned no insight.") ELSE t

\* Lines 127-140.
Insights ==
  /\ pc = "insights"
  /\ IF apiKey
     THEN \E answer \in NarrativeOutcomes :
            /\ narrative' = Append(narrative, answer)
            /\ insightText' = getGPTInsights(answer)
     ELSE /\ narrative' = narrative
          /\ insightText' = IF MOCK_IF_NO_API THEN Text("fixed", "canned narrative")
                            ELSE Text("fixed", "No API key found")
  /\ insightsTab' = Written(InsightLines(insightText'))
  /\ pc' = "debug"
  /\ UNCHANGED << mode, apiKey, tabExists, headers, sheet, pre, values, r,
                  preds, labelWrites, debugRows, recentQualified, issueSummary,
                  causeSummary, summaryTab, debugTab, error >>
  /\ UNCHANGED << confVars, aggVars >>

\* writeSingleDebug (426-445), line 143: the rows under the header.
WriteDebug ==
  /\ pc = "debug"
  /\ debugTab' = Written(debugRows)
  /\ pc' = "done"
  /\ UNCHANGED << mode, apiKey, tabExists, headers, sheet, pre, values, r,
                  preds, labelWrites, debugRows, recentQualified, issueSummary,
                  causeSummary, narrative, insightText, summaryTab, insightsTab,
                  error >>
  /\ UNCHANGED << confVars, aggVars >>

(***************************************************************************)
(* Runs of the pipeline                                                    *)
(***************************************************************************)
RunIdle(at) ==
  /\ pc = at
  /\ values = << >>
  /\ r = 0
  /\ preds = << >>
  /\ labelWrites = << >>
  /\ debugRows = << >>
  /\ recentQualified = << >>
  /\ issueSummary = << >>
  /\ causeSummary = << >>
  /\ narrative = << >>
  /\ insightText = NoText
  /\ summaryTab = NotWritten
  /\ insightsTab = NotWritten
  /\ debugTab = NotWritten
  /\ error = ""

ConfIdle == rawIn = Undef /\ confOut = << >>
AggIdle == aggIn = << >> /\ aggOut = << >>

Init ==
  /\ RunIdle("start")
  /\ mode \in FillModes
  /\ apiKey \in BOOLEAN
  /\ tabExists \in BOOLEAN
  /\ headers \in IF tabExists THEN HeaderInputs(mode) ELSE {{}}
  /\ \E n \in 0..(IF tabExists THEN MaxRows ELSE 0) : \E f \in [1..n -> RowInputs] :
       sheet = [i \in 1..n |-> Mask(f[i], headers, i)]
  /\ pre = sheet
  /\ ConfIdle
  /\ AggIdle

Next ==
  \/ Start
  \/ FillRow
  \/ Commit
  \/ Qualify
  \/ WriteSummary
  \/ Insights
  \/ WriteDebug

Spec == Init /\ [][Next]_vars

(***************************************************************************)
(* The confidence parser on its own                                        *)
(***************************************************************************)
ConfChars == {"0", "1", "7", ".", "%", "-"}
RECURSIVE StringsUpTo(_, _)
StringsUpTo(chars, k) ==
  IF k = 0 THEN {<< >>}
  ELSE LET shorter == StringsUpTo(chars, k - 1)
       IN shorter \cup {Append(s, c) : s \in shorter, c \in chars}

ConfInputs ==
  {Undef, Null, NaN}
    \cup {Num(n, d) : n \in (-MaxNum)..MaxNum, d \in {1, 10}}
    \cup {Int2(59), Int2(60), Int2(100), Int2(101), Int2(150)}
    \cup {Str(s) : s \in StringsUpTo(ConfChars, MaxStrLen)}

PipelineOff ==
  /\ RunIdle("off")
  /\ mode = "mock"
  /\ apiKey = FALSE
  /\ tabExists = FALSE
  /\ headers = {}
  /\ sheet = << >>
  /\ pre = << >>

InitConf ==
  /\ PipelineOff
  /\ AggIdle
  /\ rawIn \in ConfInputs
  /\ confOut = << >>

ParseConfidence ==
  /\ confOut = << >>
  /\ pc = "off"
  /\ aggOut = << >>
  /\ aggIn = << >>
  /\ confOut' = << safeParseConfidence(rawIn) >>
  /\ UNCHANGED << rawIn, pipeVars, aggVars >>

SpecConf == InitConf /\ [][ParseConfidence]_vars

(***************************************************************************)
(* The aggregator on its own                                               *)
(***************************************************************************)
AggLabels ==
  { Label("Data Inconsistency"), Label("Human Error"), Label("System Limitation"),
    Label("Onboarding Gaps"), Empty, Str(<< "7" >>) }

\* The confidences of the records of an input, by position.
AggConfs(p, i) ==
  IF p = 1 THEN Int2(60 + 10 * (i % 5))
  ELSE IF i % 3 = 0 THEN Empty ELSE Int2(61 + 13 * (i % 4))

AggRecord(label, conf) ==
  [c \in {"AI Root Cause", "AI Root Cause Confidence"} |->
     IF c = "AI Root Cause" THEN label ELSE conf]

InitAgg ==
  /\ PipelineOff
  /\ ConfIdle
  /\ \E n \in 0..MaxAggLen : \E f \in [1..n -> AggLabels] : \E p \in {1, 2} :
       aggIn = [i \in 1..n |-> AggRecord(f[i], AggConfs(p, i))]
  /\ aggOut = << >>

Summarize ==
  /\ aggOut = << >>
  /\ pc = "off"
  /\ confOut = << >>
  /\ aggOut' = << summarizeByKey(aggIn, "AI Root Cause", "AI Root Cause Confidence") >>
  /\ UNCHANGED << aggIn, pipeVars, confVars >>

SpecAgg == InitAgg /\ [][Summarize]_vars

(***************************************************************************)
(* Runs on one record whose created cell is a string                       *)
(***************************************************************************)
DigitChar(k) ==
  CASE k = 0 -> "0" [] k = 1 -> "1" [] k = 2 -> "2" [] k = 3 -> "3" [] k = 4 -> "4"
    [] k = 5 -> "5" [] k = 6 -> "6" [] k = 7 -> "7" [] k = 8 -> "8" [] k = 9 -> "9"

\* The decimal digits of n, and n in two digits.
RECURSIVE Dec(_)
Dec(n) == IF n < 10 THEN << DigitChar(n) >> ELSE Dec(n \div 10) \o << DigitChar(n % 10) >>
Pad2(n) == << DigitChar(n \div 10), DigitChar(n % 10) >>

CellMonths == {0, 2, 9, 10, 13}
CellDays == {0, 1, 29, 30, 31, 45}
CellYears == {2023, 2024}
CellHours == {10, 25}
CellMinutes == {0, 61}

DateCell(mm, dd, yyyy) == Dec(mm) \o << "/" >> \o Dec(dd) \o << "/" >> \o Dec(yyyy)
TimedCell(mm, dd, yyyy, hh, min) ==
  DateCell(mm, dd, yyyy) \o << " " >> \o Dec(hh) \o << ":" >> \o Pad2(min)
IsoCell(yyyy, mm, dd) == Dec(yyyy) \o << "-" >> \o Pad2(mm) \o << "-" >> \o Pad2(dd)

\* The created cells: M/D/YYYY H:MM and M/D/YYYY with components in and out
\* of the calendar, one with seconds, one between blanks, one with a T, ISO
\* strings, and strings that are no date.
CreatedInputs ==
  { Str(TimedCell(mm, dd, yyyy, hh, min)) :
      mm \in CellMonths, dd \in CellDays, yyyy \in CellYears,
      hh \in CellHours, min \in CellMinutes }
    \cup { Str(DateCell(mm, dd, yyyy)) :
             mm \in CellMonths, dd \in CellDays, yyyy \in CellYears }
    \cup { Str(TimedCell(9, 30, 2024, 10, 0) \o << ":", "3", "0" >>),
           Str(<< " " >> \o TimedCell(13, 45, 2024, 10, 0) \o << " " >>),
           Str(DateCell(10, 1, 2024) \o << "T", "1", "0", ":", "0", "0" >>),
           Str(IsoCell(2024, 9, 30)),
           Str(IsoCell(2023, 9, 30) \o << "T", "1", "0", ":", "0", "0" >>),
           Str(IsoCell(2024, 10, 1) \o << "T", "1", "0", ":", "0", "0" >>),
           Str(<< "n", "/", "a" >>),
           Str(<< "1", "3", "/", "4", "5" >>),
           Empty }

\* A run on a tab of one record, whose labels and confidences pass.
InitDate ==
  /\ RunIdle("start")
  /\ mode \in FillModes
  /\ apiKey \in BOOLEAN
  /\ tabExists = TRUE
  /\ headers = AllCols
  /\ \E created \in CreatedInputs :
       sheet = << Mask(MkRow(created, LI, Int2(75), LC, Int2(90), Empty, Empty),
                       headers, 1) >>
  /\ pre = sheet
  /\ ConfIdle
  /\ AggIdle

SpecDate == InitDate /\ [][Next]_vars

(***************************************************************************)
(* Properties                                                              *)
(***************************************************************************)
Qualified == pc \in {"summary", "insights", "debug", "done"}
LoopDone == pc \in {"commit", "qualify", "summary", "insights", "debug", "done"}
Included(row) == \E j \in 1..Len(recentQualified) : recentQualified[j] = row

\* What each reason says of the two parsed confidences, case by case.
ReasonCase(ic, rc) ==
  IF ic = Null /\ rc = Null THEN MissingBoth
  ELSE IF ic = Null THEN InvalidIssue
  ELSE IF rc = Null THEN InvalidRoot
  ELSE LET il == ic.n < CONF_THRESHOLD * ic.d
           rl == rc.n < CONF_THRESHOLD * rc.d
       IN CASE il /\ rl -> BothBelow
            [] il /\ ~rl -> IssueBelow
            [] ~il /\ rl -> RootBelow
            [] OTHER -> Pass

\* C1: once the filter has run, every row has one of the seven reasons, the
\* first that matches its parsed confidences in the order of the claim; its
\* window is Recent iff its created date is valid and not before the cutoff;
\* and it is among the qualified rows iff its reason is pass and its window
\* is Recent.
C1_ReasonAndInclusion ==
  Qualified =>
    /\ Len(debugRows) = Len(sheet)
    /\ \A i \in 1..Len(sheet) :
         LET e == debugRows[i]
             ic == safeParseConfidence(sheet[i]["AI Issue Type Confidence"])
             rc == safeParseConfidence(sheet[i]["AI Root Cause Confidence"])
             created == parseCreatedDate(sheet[i]["Created"])
         IN /\ e.reason \in Reasons
            /\ e.reason = ReasonCase(ic, rc)
            /\ e.window \in {"Recent", "Old"}
            /\ e.window = "Recent" <=>
                 (created # InvalidDate /\ created.n >= NowMin - DAYS_BACK * MinutesPerDay)
            /\ Included(sheet[i]) <=> (e.reason = Pass /\ e.window = "Recent")

\* C1 witness: the filter ran on two rows, one that passes inside the window
\* and is kept, one that passes outside the window and is dropped.
C1_Witness ==
  /\ Qualified
  /\ \E i, j \in 1..Len(sheet) :
       /\ debugRows[i].reason = Pass /\ debugRows[i].window = "Recent"
       /\ Included(sheet[i])
       /\ debugRows[j].reason = Pass /\ debugRows[j].window = "Old"
       /\ ~Included(sheet[j])

\* A label that is set, and a confidence cell that holds a value (0 is one).
NonEmpty(v) == v.t = "str" /\ v.s # << >>
Present(v) == v.t = "num" \/ (v.t = "str" /\ v.s # << >>)
LabelCols == {"AI Issue Type", "AI Root Cause"}
ConfCol(c) == IF c = "AI Issue Type" THEN "AI Issue Type Confidence"
              ELSE "AI Root Cause Confidence"
WritesOf(i, c) == IF c = "AI Issue Type" THEN labelWrites[i].issue ELSE labelWrites[i].cause
AllLabelsSet(rows) == \A i \in 1..Len(rows) : \A c \in LabelCols : NonEmpty(rows[i][c])

\* C2: in every mode, a label that was set when the run started is the same
\* in memory and in the tab from then on; a run assigns each label at most
\* once; and a fill that finds every label set leaves every cell of every
\* row as it was.
C2_NeverOverwritesLabel ==
  /\ \A i \in 1..Len(values) : \A c \in LabelCols :
       /\ NonEmpty(pre[i][c]) => (values[i][c] = pre[i][c] /\ sheet[i][c] = pre[i][c])
       /\ WritesOf(i, c) <= 1
       /\ NonEmpty(pre[i][c]) => WritesOf(i, c) = 0
  /\ AllLabelsSet(pre) => (sheet = pre /\ (values # << >> => values = pre))

\* C2 witness: the fill ended and was committed for a row of which one label
\* was set, and is kept, and the other was empty, and is written.
C2_Witness ==
  /\ pc = "qualify"
  /\ \E i \in 1..Len(sheet) :
       /\ NonEmpty(pre[i]["AI Issue Type"])
       /\ sheet[i]["AI Issue Type"] = pre[i]["AI Issue Type"]
       /\ pre[i]["AI Root Cause"] = Empty
       /\ NonEmpty(sheet[i]["AI Root Cause"])
       /\ labelWrites[i].cause = 1
  /\ \E j \in 1..Len(sheet) : AllLabelsSet(<< pre[j] >>) /\ sheet[j] = pre[j]

\* C3, the claim as stated: when the loop of the fill has ended, every row
\* whose label was empty or absent when the run started has a label and a
\* confidence for that field.
C3_EveryEmptyLabelFilled ==
  LoopDone =>
    \A i \in 1..Len(values) : \A c \in LabelCols :
      ~NonEmpty(pre[i][c]) => (NonEmpty(values[i][c]) /\ Present(values[i][ConfCol(c)]))

\* C3, what the code does: the labels that were the empty string are filled;
\* the labels of a column that the tab did not have stay undefined.
C3_OnlyEmptyStringFilled ==
  LoopDone =>
    \A i \in 1..Len(values) : \A c \in LabelCols :
      /\ pre[i][c] = Empty => (NonEmpty(values[i][c]) /\ Present(values[i][ConfCol(c)]))
      /\ pre[i][c] = Undef => values[i][c] = Undef

\* C4, the claim as stated: a confidence that a cell held when the run
\* started (0 included) is the confidence the fill leaves there.
C4_PresentConfidenceKept ==
  LoopDone =>
    \A i \in 1..Len(values) : \A c \in LabelCols :
      Present(pre[i][ConfCol(c)]) => values[i][ConfCol(c)] = pre[i][ConfCol(c)]

\* C4, what the code does: the confidence is kept where the label was set;
\* where the label is filled, the mirror mode keeps a truthy confidence and
\* puts 90 over 0, and the other modes put the new confidence over any.
C4_ConfidenceFollowsLabel ==
  LoopDone =>
    \A i \in 1..Len(values) : \A c \in LabelCols :
      LET old == pre[i][ConfCol(c)]
          new == values[i][ConfCol(c)]
      IN /\ ~needsFill(pre[i][c]) => new = old
         /\ (needsFill(pre[i][c]) /\ mode = "mirror") =>
              new = (IF Truthy(old) THEN old ELSE Int2(90))
         /\ (needsFill(pre[i][c]) /\ mode # "mirror") => new.t = "num"

\* C5, the claim as stated: whatever the raw input, the parser returns null
\* or a number from 0 to 100.
C5_ParsedInRange ==
  confOut # << >> =>
    \/ confOut[1] = Null
    \/ /\ confOut[1].t = "num"
       /\ 0 <= confOut[1].n
       /\ confOut[1].n <= 100 * confOut[1].d

\* The number a raw input stands for: the Number itself, or what parseFloat
\* reads in the digits and dots of the String; NaN if none.
RawNumber(raw) ==
  IF raw.t = "num" THEN raw
  ELSE IF raw.t = "str" /\ Cleaned(raw.s) # << >> THEN ParseFloat(Cleaned(raw.s))
  ELSE NaN

\* C5, what the code does: the result is in the range iff the number the
\* input stands for is from 0 to 100; a number above 100 is returned as it
\* is, a negative number is returned times 100.
C5_InRangeIffInputInRange ==
  confOut # << >> =>
    LET v == RawNumber(rawIn)
        out == confOut[1]
    IN IF v.t = "nan" THEN out = Null
       ELSE /\ out.t = "num"
            /\ (0 <= out.n /\ out.n <= 100 * out.d) <=> (0 <= v.n /\ v.n <= 100 * v.d)
            /\ v.n > 100 * v.d => out = v
            /\ v.n < 0 => out = Num(100 * v.n, v.d)

\* The groups of the claim, read off the input: the labels (an empty label
\* is "Unknown"), the count and the first position of each, and the rank of a
\* label when the labels are ordered by count descending and then by first
\* position.
AggKey(i) == IF NonEmpty(aggIn[i]["AI Root Cause"]) THEN aggIn[i]["AI Root Cause"].s ELSE Unknown
AggKeys == {AggKey(i) : i \in 1..Len(aggIn)}
AggCount(k) == Cardinality({i \in 1..Len(aggIn) : AggKey(i) = k})
AggFirst(k) == CHOOSE i \in 1..Len(aggIn) :
                 AggKey(i) = k /\ \A j \in 1..(i - 1) : AggKey(j) # k
AggRank(k) ==
  1 + Cardinality({k2 \in AggKeys :
                     \/ AggCount(k2) > AggCount(k)
                     \/ AggCount(k2) = AggCount(k) /\ AggFirst(k2) < AggFirst(k)})
RECURSIVE AggSum(_, _)
AggSum(k, i) ==
  IF i = 0 THEN 0
  ELSE AggSum(k, i - 1)
       + (IF AggKey(i) = k
          THEN LET c == safeParseConfidence(aggIn[i]["AI Root Cause Confidence"])
               IN IF c = Null THEN 0 ELSE c.n \div c.d
          ELSE 0)

AggAsClaimed(out) ==
  /\ Len(out) = Min(5, Cardinality(AggKeys))
  /\ \A j \in 1..Len(out) :
       /\ out[j].key \in AggKeys
       /\ AggRank(out[j].key) = j
       /\ out[j].count = AggCount(out[j].key)
       \* the mean is the tenth nearest to sum / count
       /\ LET diff == 10 * AggSum(out[j].key, Len(aggIn)) - out[j].avg.n * out[j].count
          IN 2 * diff <= out[j].count /\ -2 * diff <= out[j].count

\* C6, the claim as stated: the result is the first five groups by count
\* descending, ties in the order of first appearance, each with its count and
\* its mean to one decimal.
C6_TopFiveByCountThenFirstSeen ==
  aggOut # << >> => AggAsClaimed(aggOut[1])

\* C6, what the code does: the claim holds of every input none of whose
\* labels is an array index (a canonical numeric string such as "7").
C6_HoldsWithoutIndexLabels ==
  (aggOut # << >> /\ \A k \in AggKeys : ~IsArrayIndex(k)) => AggAsClaimed(aggOut[1])

\* C7: once the filter has run there is one debug row for each row of the
\* tab, the k-th for the k-th row (its number is k + 1, its raw created date
\* and its summary are those of the row), whether or not the row is kept;
\* the kept rows are rows of the tab; and the rows written to the Debug tab
\* are these rows in this order.
C7_OneDebugRowPerRecord ==
  /\ Qualified =>
       /\ Len(debugRows) = Len(sheet)
       /\ \A k \in 1..Len(debugRows) :
            /\ debugRows[k].rowNum = k + 1
            /\ debugRows[k].rawCreated = sheet[k]["Created"]
            /\ debugRows[k].summary = sheet[k]["Summary"]
       /\ \A j \in 1..Len(recentQualified) :
            \E k \in 1..Len(debugRows) : recentQualified[j] = sheet[k]
  /\ pc = "done" => (debugTab = Written(debugRows) /\ Len(debugTab[1]) = Len(sheet))

\* C7 witness: the run ended on two rows, the first dropped and the second
\* kept, and the Debug tab has a row for each.
C7_Witness ==
  /\ pc = "done"
  /\ Len(sheet) = 2
  /\ Len(debugTab[1]) = 2
  /\ ~Included(sheet[1])
  /\ Included(sheet[2])

\* The labels and the confidences a mock pick can give.
ListLabels(list) == {Label(list[i]) : i \in 1..Len(list)}
MockConfs == {randConf(u) : u \in 0..99}
ListOf(c) == IF c = "AI Issue Type" THEN ISSUE_TYPES_DEMO ELSE ROOT_CAUSES_DEMO
PredLabel(pred, c) == IF c = "AI Issue Type" THEN pred.issueType ELSE pred.rootCause
PredConf(pred, c) == IF c = "AI Issue Type" THEN pred.issueConfidence ELSE pred.rootConfidence
Done(i) == (pc = "fill" /\ i < r) \/ pc \notin {"start", "fill"}
SetupError == {"Missing tab: Raw Import", "setValues: the data does not match the range"}

\* C8: a classification call that fails, or whose answer lacks a label or a
\* confidence, gives each field that needed the fill a label of the allowed
\* list and a confidence of the mock range in its place, and the loop goes
\* on to the rows after it; a narrative call that fails gives the error
\* message with the detail; no run is aborted but by a missing tab or a
\* header without the AI columns; a run that is not aborted is at a step of
\* the pipeline, in the loop at a row of the tab, and when it has ended it
\* has written the three tabs.
C8_CallFailureNeverAborts ==
  /\ \A i \in 1..Len(values) : \A c \in LabelCols :
       (Done(i) /\ preds[i] # << >> /\ needsFill(pre[i][c])) =>
          LET pred == preds[i][1]
          IN /\ (~pred.ok \/ ~Truthy(PredLabel(pred, c))) =>
                  values[i][c] \in ListLabels(ListOf(c))
             /\ (~pred.ok \/ IsNullish(PredConf(pred, c))) =>
                  (values[i][ConfCol(c)] \in MockConfs
                     /\ values[i][ConfCol(c)].n \in 30..99)
  /\ \A k \in 1..Len(narrative) :
       ~narrative[k].ok =>
          (pc \in {"debug", "done"}
             /\ insightText = Text("GPT insights failed: ", narrative[k].text)
             /\ insightsTab = Written(insightText))
  /\ pc = "aborted" =>
       (error \in SetupError /\ (~tabExists \/ ~(AICols \subseteq headers)))
  /\ (tabExists /\ AICols \subseteq headers) => (pc # "aborted" /\ error = "")
  /\ pc \in {"start", "fill", "commit", "qualify", "summary", "insights", "debug",
             "done", "aborted"}
  /\ pc = "fill" => r \in 1..Len(values)
  /\ pc = "done" =>
       (summaryTab # NotWritten /\ insightsTab # NotWritten /\ debugTab # NotWritten)

\* C8 witness: the run ended with the three tabs written after the
\* classification call of the first row failed, the one of the second row
\* succeeded, and the narrative call failed.
C8_Witness ==
  /\ pc = "done"
  /\ Len(sheet) = 2
  /\ preds[1] # << >> /\ ~preds[1][1].ok
  /\ preds[2] # << >> /\ preds[2][1].ok
  /\ narrative # << >> /\ ~narrative[1].ok
  /\ summaryTab # NotWritten /\ insightsTab # NotWritten /\ debugTab # NotWritten

RowNeedsFill(row) == \E c \in LabelCols : needsFill(row[c])

\* Row i is its read row with each needed field as a mock pick makes it.
MockFilled(i) ==
  /\ \A c \in LabelCols :
       IF needsFill(pre[i][c])
       THEN \E u1 \in RandU : \E u2 \in RandU :
              /\ values[i][c] = FillMock(ListOf(c), u1, u2).label
              /\ values[i][ConfCol(c)] = FillMock(ListOf(c), u1, u2).conf
       ELSE /\ values[i][c] = pre[i][c]
            /\ values[i][ConfCol(c)] = pre[i][ConfCol(c)]
  /\ \A c \in AllCols \ AICols : values[i][c] = pre[i][c]

C10_MissingTabAborts ==
  ~tabExists =>
    /\ pc \in {"start", "aborted"}
    /\ pc = "aborted" => error = "Missing tab: Raw Import"
    /\ values = << >> /\ sheet = pre
    /\ preds = << >> /\ narrative = << >> /\ labelWrites = << >>
    /\ summaryTab = NotWritten /\ insightsTab = NotWritten /\ debugTab = NotWritten

\* C10 witness: the run on a missing tab has thrown.
C10_Witness ==
  ~tabExists /\ pc = "aborted" /\ error = "Missing tab: Raw Import"

\* The created cell of row i as the filter read it, and what it made of it.
CreatedString(i) == Trim(debugRows[i].rawCreated.s)
ValidCalendar(m) == m.mm \in 1..12 /\ m.dd \in 1..DaysInMonth(m.yyyy, m.mm)
NotACalendarDate(i) ==
  /\ debugRows[i].rawCreated.t = "str"
  /\ NewDate(CreatedString(i)) = InvalidDate
  /\ MatchCreated(CreatedString(i)).ok
  /\ ~ValidCalendar(MatchCreated(CreatedString(i)))

\* C11: a created string that new Date does not read and whose M/D/YYYY H:MM
\* components are no calendar date (month outside 1..12 or day outside the
\* month) is parsed to the Invalid Date, so its record has the window "Old"
\* and is not among the qualified records.
C11_InvalidCalendarGivesInvalid ==
  Qualified =>
    \A i \in 1..Len(debugRows) :
      NotACalendarDate(i) =>
        /\ debugRows[i].parsedISO = Label("Invalid")
        /\ debugRows[i].window = "Old"
        /\ ~Included(sheet[i])

\* What the code does with such a string: the constructor of line 322 carries
\* the components over, the result is a valid date, and the record is kept
\* when that date is not before the cutoff.
C11_InvalidCalendarRollsOver ==
  Qualified =>
    \A i \in 1..Len(debugRows) :
      NotACalendarDate(i) =>
        LET m == MatchCreated(CreatedString(i))
            d == DateOfParts(m.yyyy, m.mm - 1, m.dd, m.hh, m.min, m.ss)
        IN /\ debugRows[i].parsedISO = d
           /\ d.t = "date"
           /\ debugRows[i].window = (IF d.n >= cutoffDate.n THEN "Recent" ELSE "Old")
           /\ Included(sheet[i]) <=> d.n >= cutoffDate.n

\* A string that new Date does not read and the pattern does not match is
\* parsed to the Invalid Date, and its record is dropped.
C11_UnmatchedGivesInvalid ==
  Qualified =>
    \A i \in 1..Len(debugRows) :
      (/\ debugRows[i].rawCreated.t = "str"
       /\ NewDate(CreatedString(i)) = InvalidDate
       /\ ~MatchCreated(CreatedString(i)).ok) =>
        /\ debugRows[i].parsedISO = Label("Invalid")
        /\ debugRows[i].window = "Old"
        /\ ~Included(sheet[i])

\* The confidence of field c of row i as the filter parsed it, and whether
\* the fill engine made the value the cell holds: it filled the label and,
\* in mirror mode, found no truthy confidence to keep.
ParsedConf(i, c) ==
  IF c = "AI Issue Type" THEN debugRows[i].issueConf ELSE debugRows[i].rootConf
EngineWrote(i, c) ==
  /\ needsFill(pre[i][c])
  /\ mode = "mirror" => ~Truthy(pre[i][ConfCol(c)])
FromAnswer(i, c) ==
  /\ mode = "gpt" /\ apiKey /\ preds[i] # << >>
  /\ preds[i][1].ok /\ ~IsNullish(PredConf(preds[i][1], c))
SameNumber(a, b) == a.t = "num" /\ b.t = "num" /\ a.n * b.d = b.n * a.d

\* C12: once the filter ran, every confidence the fill engine wrote is parsed
\* to itself: the round(c x 100) of a successful answer with fraction c, the
\* 90 of the mirror mode and every mock confidence; so the field is below
\* the threshold exactly when the written value is.
C12_WrittenConfidenceReadBack ==
  Qualified =>
    \A i \in 1..Len(sheet) : \A c \in LabelCols :
      EngineWrote(i, c) =>
        LET w == sheet[i][ConfCol(c)]
        IN /\ SameNumber(ParsedConf(i, c), w)
           /\ Below(ParsedConf(i, c)) <=> Below(w)
           /\ FromAnswer(i, c) =>
                LET f == PredConf(preds[i][1], c)
                IN w = Int2(MathRound(f.n * 100, f.d))
           /\ mode = "mirror" => w = Int2(90)
           /\ (~FromAnswer(i, c) /\ mode # "mirror") => w \in MockConfs

\* What the code does: the written value is as C12 says, and it is parsed to
\* itself unless it is 1 (an answer with a fraction that rounds to 1%), which
\* the parser takes for the fraction 1 and makes 100.
C12_ReadBackUnlessOne ==
  Qualified =>
    \A i \in 1..Len(sheet) : \A c \in LabelCols :
      EngineWrote(i, c) =>
        LET w == sheet[i][ConfCol(c)]
        IN /\ w.t = "num"
           /\ SameNumber(ParsedConf(i, c), IF w = Int2(1) THEN Int2(100) ELSE w)
           /\ FromAnswer(i, c) =>
                LET f == PredConf(preds[i][1], c)
                IN w = Int2(MathRound(f.n * 100, f.d))
           /\ mode = "mirror" => w = Int2(90)
           /\ (~FromAnswer(i, c) /\ mode # "mirror") => w \in MockConfs

====
